---- MODULE Spec2Model ----
(***************************************************************************)
(* Aurafox 1.1 (src/aurafox-1.1.js): the Random, Arithma, Vector2 and      *)
(* Vector3 classes of the Aura namespace.                                  *)
(*                                                                         *)
(* The library keeps no state of its own.  A state of the model is one     *)
(* completed call: the operation, the caller's objects as the call left    *)
(* them, the value the call returned and the exception it threw.           *)
(*                                                                         *)
(* JavaScript numbers are binary floating-point values.  A number is       *)
(* modelled as an exact rational num/den, or NaN, +Infinity or -Infinity,  *)
(* and every arithmetic operator rounds its exact result to the nearest    *)
(* value with a significand of Precision bits, ties to even, as IEEE 754   *)
(* does with 53 bits.  The exponent range is not bounded: no modelled      *)
(* magnitude comes near 2^1023 or 2^-1022.  Negative zero is not told      *)
(* apart from zero (no modelled operation observes the difference).        *)
(***************************************************************************)
EXTENDS Integers, Sequences, FiniteSets, TLC

\* Width in bits of the significand of a number (53 in the engine).
Precision == 4
\* Longest array, string or key list a caller passes.
MaxLen == 3
\* Largest array element, weight and Range/RangeInt bound a caller passes.
MaxVal == 3
\* Largest magnitude of a vector component or scalar a caller passes.
MaxCoord == 1

----------------------------------------------------------------------------
(* Numbers *)

Abs(i) == IF i < 0 THEN -i ELSE i

RECURSIVE Pow2(_)
Pow2(k) == IF k <= 0 THEN 1 ELSE 2 * Pow2(k - 1)

RECURSIVE GCD(_, _)
GCD(a, b) == IF b = 0 THEN a ELSE GCD(b, a % b)

NaN == [kind |-> "NaN", num |-> 0, den |-> 1]
PosInfinity == [kind |-> "Infinity", num |-> 1, den |-> 1]
NegInfinity == [kind |-> "Infinity", num |-> -1, den |-> 1]

\* The rational n/d (d > 0) in lowest terms.
Rat(n, d) ==
    LET g == GCD(Abs(n), d)
    IN  [kind |-> "finite", num |-> n \div g, den |-> d \div g]

Num(i) == Rat(i, 1)

IsFinite(a) == a.kind = "finite"
IsNaN(a) == a.kind = "NaN"
IsZero(a) == IsFinite(a) /\ a.num = 0
SignOf(a) == IF a.num < 0 THEN -1 ELSE IF a.num > 0 THEN 1 ELSE 0
Infinity(s) == IF s < 0 THEN NegInfinity ELSE PosInfinity

\* The greatest e with 2^e <= n/d, for n, d > 0.
RECURSIVE Log2Floor(_, _)
Log2Floor(n, d) ==
    IF n < d THEN Log2Floor(2 * n, d) - 1
    ELSE IF n >= 2 * d THEN Log2Floor(n, 2 * d) + 1
    ELSE 0

\* The exact rational n/d (d > 0) rounded to a significand of Precision
\* bits, to nearest, ties to even.
Round(n, d) ==
    IF n = 0 THEN Num(0)
    ELSE LET a     == Abs(n)
             shift == Log2Floor(a, d) - (Precision - 1)
             sn    == IF shift >= 0 THEN a ELSE a * Pow2(-shift)
             sd    == IF shift >= 0 THEN d * Pow2(shift) ELSE d
             q     == sn \div sd
             r     == sn % sd
             m     == IF 2 * r > sd \/ (2 * r = sd /\ q % 2 = 1)
                      THEN q + 1 ELSE q
             s     == IF n < 0 THEN -1 ELSE 1
         IN  IF shift >= 0 THEN Rat(s * m * Pow2(shift), 1)
             ELSE Rat(s * m, Pow2(-shift))

\* a + b
FAdd(a, b) ==
    IF IsNaN(a) \/ IsNaN(b) THEN NaN
    ELSE IF ~IsFinite(a) /\ ~IsFinite(b)
         THEN (IF a.num = b.num THEN a ELSE NaN)
    ELSE IF ~IsFinite(a) THEN a
    ELSE IF ~IsFinite(b) THEN b
    ELSE Round(a.num * b.den + b.num * a.den, a.den * b.den)

\* -a
FNeg(a) == [a EXCEPT !.num = -a.num]

\* a - b
FSub(a, b) == FAdd(a, FNeg(b))

\* a * b
FMul(a, b) ==
    IF IsNaN(a) \/ IsNaN(b) THEN NaN
    ELSE IF ~IsFinite(a) \/ ~IsFinite(b)
         THEN (IF IsZero(a) \/ IsZero(b) THEN NaN
               ELSE Infinity(SignOf(a) * SignOf(b)))
    ELSE Round(a.num * b.num, a.den * b.den)

\* a / b
FDiv(a, b) ==
    IF IsNaN(a) \/ IsNaN(b) THEN NaN
    ELSE IF ~IsFinite(a)
         THEN (IF ~IsFinite(b) THEN NaN
               ELSE Infinity(SignOf(a) * (IF SignOf(b) < 0 THEN -1 ELSE 1)))
    ELSE IF ~IsFinite(b) THEN Num(0)
    ELSE IF IsZero(b)
         THEN (IF IsZero(a) THEN NaN ELSE Infinity(SignOf(a)))
    ELSE Round(SignOf(b) * a.num * b.den, a.den * Abs(b.num))

\* a < b (false when either is NaN)
Less(a, b) ==
    /\ ~IsNaN(a)
    /\ ~IsNaN(b)
    /\ IF ~IsFinite(a) THEN a.num < 0 /\ b # a
       ELSE IF ~IsFinite(b) THEN b.num > 0
       ELSE a.num * b.den < b.num * a.den

\* a > b
Greater(a, b) == Less(b, a)

\* a <= b, a >= b (false when either is NaN)
LessEq(a, b) == Less(a, b) \/ (~IsNaN(a) /\ a = b)

\* Math.sqrt(a): the exact root rounded to Precision bits.
FSqrt(a) ==
    IF IsNaN(a) \/ a.num < 0 THEN NaN
    ELSE IF ~IsFinite(a) \/ a.num = 0 THEN a
    ELSE LET e     == Log2Floor(a.num, a.den) \div 2
             shift == e - (Precision - 1)
             n     == IF shift >= 0 THEN a.num ELSE a.num * Pow2(-2 * shift)
             d     == IF shift >= 0 THEN a.den * Pow2(2 * shift) ELSE a.den
             q     == CHOOSE m \in Pow2(Precision - 1) .. Pow2(Precision) - 1 :
                          m * m * d <= n /\ (m + 1) * (m + 1) * d > n
             h     == (2 * q + 1) * (2 * q + 1) * d
             m     == IF h < 4 * n \/ (h = 4 * n /\ q % 2 = 1)
                      THEN q + 1 ELSE q
         IN  IF shift >= 0 THEN Rat(m * Pow2(shift), 1)
             ELSE Rat(m, Pow2(-shift))

\* Math.floor(a)
Floor(a) == IF IsFinite(a) THEN Num(a.num \div a.den) ELSE a

----------------------------------------------------------------------------
(* JavaScript values *)

Undefined == [type |-> "undefined"]
NumberValue(a) == [type |-> "number", n |-> a]
StringValue(c) == [type |-> "string", s |-> c]

\* ToNumber(v) for the values a caller's weights array holds or lacks.
ToNumber(v) == IF v.type = "number" THEN v.n ELSE NaN

\* array[i] for a number i: the element, or undefined outside 0..length-1.
ArrayGet(array, i) ==
    IF IsFinite(i) /\ i.den = 1 /\ i.num >= 0 /\ i.num < Len(array)
    THEN array[i.num + 1]
    ELSE Undefined

\* string.charAt(i): the character, or "" outside 0..length-1.
CharAt(chars, i) ==
    IF IsFinite(i) /\ i.den = 1 /\ i.num >= 0 /\ i.num < Len(chars)
    THEN chars[i.num + 1]
    ELSE StringValue("")

----------------------------------------------------------------------------
(* State *)

VARIABLES
    op,      \* the method the last call ran ("none" before any call)
    args,    \* its arguments, as they were when it was called
    u,       \* the value Math.random() gave it (0 when it drew none)
    heap,    \* the caller's objects (arrays, vectors) as the call left them
    locals,  \* the call's local variables when it returned or threw
    ret,     \* the value it returned (undefined when it threw)
    thrown,  \* the exception it threw ("none" when it returned)
    made     \* the caller's vectors as their constructors made them

vars == <<op, args, u, heap, locals, ret, thrown, made>>

NoArgs == [none |-> TRUE]

Init ==
    /\ op = "none"
    /\ args = NoArgs
    /\ u = Num(0)
    /\ heap = NoArgs
    /\ locals = NoArgs
    /\ ret = Undefined
    /\ thrown = "none"
    /\ made = NoArgs

----------------------------------------------------------------------------
(* class Random *)

\* The values Math.random() can return: numbers in [0, 1).
Draws == {Rat(k, Pow2(Precision)) : k \in 0 .. Pow2(Precision) - 1}

\* Random.Range(min, max), rnd being the value Math.random() returns.
Range(min, max, rnd) == FAdd(FMul(rnd, FSub(max, min)), min)

\* Random.RangeInt(min, max)
RangeInt(min, max, rnd) == Floor(FAdd(FMul(rnd, FSub(max, min)), min))

\* InIndex with Math.round in place of Math.floor.
InIndexRounded(length, rnd) ==
    Floor(FAdd(Range(Num(0), Num(length), rnd), Rat(1, 2)))

\* Math.floor(this.Range(0, length)): the index Random.In selects.
InIndex(length, rnd) == Floor(Range(Num(0), Num(length), rnd))

\* Random.In(haystack).  A haystack is [shape, elems]: an array and its
\* elements, a string and its characters, an object and the values of its
\* own keys in Object.keys order, or a value of another type.
In(haystack, rnd) ==
    CASE haystack.shape = "array" ->
            ArrayGet(haystack.elems, InIndex(Len(haystack.elems), rnd))
      [] haystack.shape = "object" ->
            IF Len(haystack.elems) = 0 THEN Undefined
            ELSE ArrayGet(haystack.elems, InIndex(Len(haystack.elems), rnd))
      [] haystack.shape = "string" ->
            CharAt(haystack.elems, InIndex(Len(haystack.elems), rnd))
      [] OTHER -> Undefined

\* weights.reduce((sum, weight) => sum + weight, 0)
RECURSIVE ReduceSum(_, _)
ReduceSum(array, sum) ==
    IF array = <<>> THEN sum
    ELSE ReduceSum(Tail(array), FAdd(sum, ToNumber(Head(array))))

\* WeightedScan with randomNum <= cumulativeWeight as its test.
RECURSIVE WeightedScanInclusive(_, _, _, _, _)
WeightedScanInclusive(items, weights, randomNum, i, cumulativeWeight) ==
    IF i >= Len(items) THEN -1
    ELSE LET c == FAdd(cumulativeWeight, ToNumber(ArrayGet(weights, Num(i))))
         IN  IF LessEq(randomNum, c) THEN i
             ELSE WeightedScanInclusive(items, weights, randomNum, i + 1, c)

\* The loop of Random.WeightedSelect from index i on: the index it returns
\* items[i] at, or -1 when it runs off the end of items.
RECURSIVE WeightedScan(_, _, _, _, _)
WeightedScan(items, weights, randomNum, i, cumulativeWeight) ==
    IF i >= Len(items) THEN -1
    ELSE LET c == FAdd(cumulativeWeight, ToNumber(ArrayGet(weights, Num(i))))
         IN  IF Less(randomNum, c) THEN i
             ELSE WeightedScan(items, weights, randomNum, i + 1, c)

\* Random.WeightedSelect(items, weights): its locals and its result.
WeightedSelect(items, weights, rnd) ==
    LET totalWeight == ReduceSum(weights, Num(0))
        randomNum   == FMul(rnd, totalWeight)
        i           == WeightedScan(items, weights, randomNum, 0, Num(0))
    IN  [totalWeight |-> totalWeight, randomNum |-> randomNum, i |-> i,
         ret |-> IF i >= 0 THEN items[i + 1] ELSE Undefined]

\* What callers pass.
Bounds == {Num(i) : i \in 0 .. MaxVal}
Names == <<"a", "b", "c", "d", "e", "f", "g", "h">>
Elems(n) == [i \in 1 .. n |-> StringValue(Names[i])]
Shapes == {"array", "object", "string", "number"}
Haystacks ==
    {[shape |-> sh, elems |-> Elems(n)] : sh \in Shapes \ {"number"}, n \in 0 .. MaxLen}
      \cup {[shape |-> "number", elems |-> <<>>]}
RECURSIVE SeqsUpTo(_, _)
SeqsUpTo(S, n) ==
    IF n = 0 THEN {<<>>}
    ELSE LET shorter == SeqsUpTo(S, n - 1)
         IN  shorter \cup {Append(s, x) : s \in {t \in shorter : Len(t) = n - 1}, x \in S}
WeightArrays == SeqsUpTo({NumberValue(Num(i)) : i \in 0 .. MaxVal}, MaxLen)

CallRange ==
    /\ op = "none"
    /\ \E min \in Bounds, max \in Bounds, rnd \in Draws :
        /\ op' = "Range"
        /\ args' = [min |-> min, max |-> max]
        /\ u' = rnd
        /\ ret' = NumberValue(Range(min, max, rnd))
        /\ thrown' = "none"
        /\ UNCHANGED <<heap, locals, made>>

CallRangeInt ==
    /\ op = "none"
    /\ \E min \in Bounds, max \in Bounds, rnd \in Draws :
        /\ op' = "RangeInt"
        /\ args' = [min |-> min, max |-> max]
        /\ u' = rnd
        /\ ret' = NumberValue(RangeInt(min, max, rnd))
        /\ thrown' = "none"
        /\ UNCHANGED <<heap, locals, made>>

CallIn ==
    /\ op = "none"
    /\ \E haystack \in Haystacks, rnd \in Draws :
        /\ op' = "In"
        /\ args' = [haystack |-> haystack]
        /\ u' = rnd
        /\ ret' = In(haystack, rnd)
        /\ thrown' = "none"
        /\ UNCHANGED <<heap, locals, made>>

CallWeightedSelect ==
    /\ op = "none"
    /\ \E n \in 0 .. MaxLen, weights \in WeightArrays, rnd \in Draws :
        LET r == WeightedSelect(Elems(n), weights, rnd)
        IN  /\ op' = "WeightedSelect"
            /\ args' = [items |-> Elems(n), weights |-> weights]
            /\ u' = rnd
            /\ locals' = [totalWeight |-> r.totalWeight,
                          randomNum |-> r.randomNum, i |-> r.i]
            /\ ret' = r.ret
            /\ thrown' = "none"
            /\ UNCHANGED <<heap, made>>

\* The caller drops the result of a completed call and is free to call again.
Discard ==
    /\ op # "none"
    /\ op' = "none"
    /\ args' = NoArgs
    /\ u' = Num(0)
    /\ heap' = NoArgs
    /\ locals' = NoArgs
    /\ ret' = Undefined
    /\ thrown' = "none"
    /\ UNCHANGED made

NextRandom ==
    \/ Discard
    \/ CallRange
    \/ CallRangeInt
    \/ CallIn
    \/ CallWeightedSelect

Spec == Init /\ [][NextRandom]_vars

----------------------------------------------------------------------------
(* class Arithma *)

\* Arithma.Sum(array)
Sum(array) == ReduceSum(array, Num(0))

\* Arithma.Mean(array)
Mean(array) ==
    LET total == ReduceSum(array, Num(0))
    IN  FDiv(total, Num(Len(array)))

\* sorted with x put where the comparator (a, b) => a - b places it.
RECURSIVE Insert(_, _)
Insert(sorted, x) ==
    IF sorted = <<>> THEN <<x>>
    ELSE IF Greater(FSub(ToNumber(Head(sorted)), ToNumber(x)), Num(0))
         THEN <<x>> \o sorted
         ELSE <<Head(sorted)>> \o Insert(Tail(sorted), x)

\* array.sort((a, b) => a - b): the elements in ascending order.
RECURSIVE Sort(_)
Sort(array) ==
    IF array = <<>> THEN <<>>
    ELSE Insert(Sort(SubSeq(array, 1, Len(array) - 1)), array[Len(array)])

\* Median with array.sort(...) run on the caller's array, not on a copy.
MedianInPlace(array) ==
    LET sorted == Sort(array)
        mid    == Floor(FDiv(Num(Len(sorted)), Num(2)))
    IN  [array |-> sorted,
         ret |-> IF Len(sorted) % 2 = 0
                 THEN NumberValue(
                          FDiv(FAdd(ToNumber(ArrayGet(sorted, FSub(mid, Num(1)))),
                                    ToNumber(ArrayGet(sorted, mid))),
                               Num(2)))
                 ELSE ArrayGet(sorted, mid)]

\* Arithma.Median(array): the caller's array as the call leaves it and the
\* value returned.  The sort runs on the copy [...array].
Median(array) ==
    LET copy   == array
        sorted == Sort(copy)
        mid    == Floor(FDiv(Num(Len(sorted)), Num(2)))
    IN  [array |-> array,
         ret |-> IF Len(sorted) % 2 = 0
                 THEN NumberValue(
                          FDiv(FAdd(ToNumber(ArrayGet(sorted, FSub(mid, Num(1)))),
                                    ToNumber(ArrayGet(sorted, mid))),
                               Num(2)))
                 ELSE ArrayGet(sorted, mid)]

\* array.map(x => Math.pow(x - mean, 2))
SquaredDeviations(array, mean) ==
    [i \in 1 .. Len(array) |->
        LET dev == FSub(ToNumber(array[i]), mean)
        IN  NumberValue(FMul(dev, dev))]

\* Arithma.Variance(array)
Variance(array) ==
    LET mean == Mean(array)
    IN  Mean(SquaredDeviations(array, mean))

\* Arithma.StandardDeviation(array)
StandardDeviation(array) == FSqrt(Variance(array))

\* Math.max(a, b)
Max2(a, b) ==
    IF IsNaN(a) \/ IsNaN(b) THEN NaN ELSE IF Less(a, b) THEN b ELSE a

\* Math.min(a, b)
Min2(a, b) ==
    IF IsNaN(a) \/ IsNaN(b) THEN NaN ELSE IF Less(b, a) THEN b ELSE a

\* Arithma.Max(array): Math.max(...array), -Infinity with no argument.
RECURSIVE MaxFrom(_, _)
MaxFrom(array, best) ==
    IF array = <<>> THEN best
    ELSE MaxFrom(Tail(array), Max2(best, ToNumber(Head(array))))
Max(array) == MaxFrom(array, NegInfinity)

\* Arithma.Min(array): Math.min(...array), +Infinity with no argument.
RECURSIVE MinFrom(_, _)
MinFrom(array, best) ==
    IF array = <<>> THEN best
    ELSE MinFrom(Tail(array), Min2(best, ToNumber(Head(array))))
Min(array) == MinFrom(array, PosInfinity)

\* What callers pass.
NumberArrays == SeqsUpTo({NumberValue(Num(i)) : i \in 0 .. MaxVal}, MaxLen)

CallSum ==
    /\ op = "none"
    /\ \E array \in NumberArrays :
        /\ op' = "Sum"
        /\ args' = [array |-> array]
        /\ heap' = [array |-> array]
        /\ ret' = NumberValue(Sum(array))
        /\ thrown' = "none"
        /\ UNCHANGED <<u, locals, made>>

CallMax ==
    /\ op = "none"
    /\ \E array \in NumberArrays :
        /\ op' = "Max"
        /\ args' = [array |-> array]
        /\ heap' = [array |-> array]
        /\ ret' = NumberValue(Max(array))
        /\ thrown' = "none"
        /\ UNCHANGED <<u, locals, made>>

CallMin ==
    /\ op = "none"
    /\ \E array \in NumberArrays :
        /\ op' = "Min"
        /\ args' = [array |-> array]
        /\ heap' = [array |-> array]
        /\ ret' = NumberValue(Min(array))
        /\ thrown' = "none"
        /\ UNCHANGED <<u, locals, made>>

CallMean ==
    /\ op = "none"
    /\ \E array \in NumberArrays :
        /\ op' = "Mean"
        /\ args' = [array |-> array]
        /\ heap' = [array |-> array]
        /\ ret' = NumberValue(Mean(array))
        /\ thrown' = "none"
        /\ UNCHANGED <<u, locals, made>>

CallVariance ==
    /\ op = "none"
    /\ \E array \in NumberArrays :
        /\ op' = "Variance"
        /\ args' = [array |-> array]
        /\ heap' = [array |-> array]
        /\ ret' = NumberValue(Variance(array))
        /\ thrown' = "none"
        /\ UNCHANGED <<u, locals, made>>

CallStandardDeviation ==
    /\ op = "none"
    /\ \E array \in NumberArrays :
        /\ op' = "StandardDeviation"
        /\ args' = [array |-> array]
        /\ heap' = [array |-> array]
        /\ ret' = NumberValue(StandardDeviation(array))
        /\ thrown' = "none"
        /\ UNCHANGED <<u, locals, made>>

CallMedian ==
    /\ op = "none"
    /\ \E array \in NumberArrays :
        LET r == Median(array)
        IN  /\ op' = "Median"
            /\ args' = [array |-> array]
            /\ heap' = [array |-> r.array]
            /\ ret' = r.ret
            /\ thrown' = "none"
            /\ UNCHANGED <<u, locals, made>>

NextArithma ==
    \/ Discard
    \/ CallSum
    \/ CallMax
    \/ CallMin
    \/ CallMean
    \/ CallMedian
    \/ CallVariance
    \/ CallStandardDeviation

SpecArithma == Init /\ [][NextArithma]_vars

----------------------------------------------------------------------------
(* class Vector2, class Vector3 *)

\* The outcome of a method: the value it returns or the exception it throws.
Returned(value) == [thrown |-> "none", value |-> value]
Threw(exception) == [thrown |-> exception, value |-> Undefined]

\* new Vector2(x, y)
Vector2(x, y) == [class |-> "Vector2", x |-> x, y |-> y]

\* The properties a Vector2 has: its fields and its prototype's methods
\* (FromAngle is static).
Vector2Members ==
    {"x", "y", "constructor", "Add", "Subtract", "Multiply", "Divide",
     "Length", "Normalize", "Dot"}

Vector2Add(this, vector) ==
    Vector2(FAdd(this.x, vector.x), FAdd(this.y, vector.y))

Vector2Subtract(this, vector) ==
    Vector2(FSub(this.x, vector.x), FSub(this.y, vector.y))

Vector2Multiply(this, scalar) ==
    Vector2(FMul(this.x, scalar), FMul(this.y, scalar))

Vector2Divide(this, scalar) ==
    Vector2(FDiv(this.x, scalar), FDiv(this.y, scalar))

Vector2Length(this) ==
    FSqrt(FAdd(FMul(this.x, this.x), FMul(this.y, this.y)))

\* Vector2.Normalize(): it calls this.length() and this.divide(len).
Vector2Normalize(this) ==
    IF "length" \notin Vector2Members THEN Threw("TypeError")
    ELSE LET len == Vector2Length(this)
         IN  IF Greater(len, Num(0))
             THEN (IF "divide" \notin Vector2Members THEN Threw("TypeError")
                   ELSE Returned(Vector2Divide(this, len)))
             ELSE Returned(Vector2(Num(0), Num(0)))

Vector2Dot(this, vector) ==
    FAdd(FMul(this.x, vector.x), FMul(this.y, vector.y))

\* new Vector3(x, y, z)
Vector3(x, y, z) == [class |-> "Vector3", x |-> x, y |-> y, z |-> z]

\* The properties a Vector3 has: its fields and its prototype's methods.
Vector3Members ==
    {"x", "y", "z", "constructor", "Add", "Subtract", "Multiply", "Divide",
     "Length", "Normalize", "Dot", "Cross"}

Vector3Add(this, vector) ==
    Vector3(FAdd(this.x, vector.x), FAdd(this.y, vector.y),
            FAdd(this.z, vector.z))

Vector3Subtract(this, vector) ==
    Vector3(FSub(this.x, vector.x), FSub(this.y, vector.y),
            FSub(this.z, vector.z))

Vector3Multiply(this, scalar) ==
    Vector3(FMul(this.x, scalar), FMul(this.y, scalar), FMul(this.z, scalar))

Vector3Divide(this, scalar) ==
    Vector3(FDiv(this.x, scalar), FDiv(this.y, scalar), FDiv(this.z, scalar))

Vector3Length(this) ==
    FSqrt(FAdd(FAdd(FMul(this.x, this.x), FMul(this.y, this.y)),
               FMul(this.z, this.z)))

\* Vector3.Normalize(): it calls this.length() and this.divide(len).
Vector3Normalize(this) ==
    IF "length" \notin Vector3Members THEN Threw("TypeError")
    ELSE LET len == Vector3Length(this)
         IN  IF Greater(len, Num(0))
             THEN (IF "divide" \notin Vector3Members THEN Threw("TypeError")
                   ELSE Returned(Vector3Divide(this, len)))
             ELSE Returned(Vector3(Num(0), Num(0), Num(0)))

Vector3Dot(this, vector) ==
    FAdd(FAdd(FMul(this.x, vector.x), FMul(this.y, vector.y)),
         FMul(this.z, vector.z))

\* Vector3Cross with the two products of each component exchanged.
Vector3CrossLeftHanded(this, vector) ==
    Vector3(FSub(FMul(this.z, vector.y), FMul(this.y, vector.z)),
            FSub(FMul(this.x, vector.z), FMul(this.z, vector.x)),
            FSub(FMul(this.y, vector.x), FMul(this.x, vector.y)))

Vector3Cross(this, vector) ==
    Vector3(FSub(FMul(this.y, vector.z), FMul(this.z, vector.y)),
            FSub(FMul(this.z, vector.x), FMul(this.x, vector.z)),
            FSub(FMul(this.x, vector.y), FMul(this.y, vector.x)))

\* What callers pass.
Coords == {Num(i) : i \in -1 .. MaxCoord}
Scalars == {Num(i) : i \in -1 .. MaxCoord}

\* A reference to the object in cell ref of the heap.
Ref(ref) == [type |-> "object", ref |-> ref]

\* The caller's two vectors are heap[1] and heap[2]; a method is called on
\* heap[1], with heap[2] as its vector argument, and the vector it makes
\* is put in heap[3].
IsVector2 == heap[1].class = "Vector2"

\* No call is in progress or pending on the caller's vectors.
Ready == op = "new"

\* The caller constructs two Vector2.
ConstructVector2 ==
    \E x1 \in Coords, y1 \in Coords, x2 \in Coords, y2 \in Coords :
        /\ op = "none"
        /\ op' = "new"
        /\ heap' = <<Vector2(x1, y1), Vector2(x2, y2)>>
        /\ made' = heap'
        /\ UNCHANGED <<args, u, locals, ret, thrown>>

\* The caller constructs two Vector3.
ConstructVector3 ==
    \E x1 \in Coords, y1 \in Coords, z1 \in Coords,
       x2 \in Coords, y2 \in Coords, z2 \in Coords :
        /\ op = "none"
        /\ op' = "new"
        /\ heap' = <<Vector3(x1, y1, z1), Vector3(x2, y2, z2)>>
        /\ made' = heap'
        /\ UNCHANGED <<args, u, locals, ret, thrown>>

\* A method that returns the new vector made.
ReturnsVector(name, argument, vector) ==
    /\ op' = name
    /\ args' = argument
    /\ heap' = <<heap[1], heap[2], vector>>
    /\ ret' = Ref(3)
    /\ thrown' = "none"
    /\ UNCHANGED <<u, locals, made>>

CallAdd ==
    /\ Ready
    /\ ReturnsVector("Add", [vector |-> Ref(2)],
                     IF IsVector2 THEN Vector2Add(heap[1], heap[2])
                     ELSE Vector3Add(heap[1], heap[2]))

CallSubtract ==
    /\ Ready
    /\ ReturnsVector("Subtract", [vector |-> Ref(2)],
                     IF IsVector2 THEN Vector2Subtract(heap[1], heap[2])
                     ELSE Vector3Subtract(heap[1], heap[2]))

CallMultiply ==
    /\ Ready
    /\ \E scalar \in Scalars :
        ReturnsVector("Multiply", [scalar |-> scalar],
                      IF IsVector2 THEN Vector2Multiply(heap[1], scalar)
                      ELSE Vector3Multiply(heap[1], scalar))

CallDivide ==
    /\ Ready
    /\ \E scalar \in Scalars :
        ReturnsVector("Divide", [scalar |-> scalar],
                      IF IsVector2 THEN Vector2Divide(heap[1], scalar)
                      ELSE Vector3Divide(heap[1], scalar))

CallCross ==
    /\ Ready
    /\ ~IsVector2
    /\ ReturnsVector("Cross", [vector |-> Ref(2)],
                     Vector3Cross(heap[1], heap[2]))

CallNormalize ==
    /\ Ready
    /\ LET r == IF IsVector2 THEN Vector2Normalize(heap[1])
                ELSE Vector3Normalize(heap[1])
       IN  /\ op' = "Normalize"
           /\ args' = NoArgs
           /\ thrown' = r.thrown
           /\ heap' = IF r.thrown = "none" THEN <<heap[1], heap[2], r.value>>
                      ELSE heap
           /\ ret' = IF r.thrown = "none" THEN Ref(3) ELSE Undefined
           /\ UNCHANGED <<u, locals, made>>

CallLength ==
    /\ Ready
    /\ op' = "Length"
    /\ args' = NoArgs
    /\ ret' = NumberValue(IF IsVector2 THEN Vector2Length(heap[1])
                          ELSE Vector3Length(heap[1]))
    /\ thrown' = "none"
    /\ UNCHANGED <<u, heap, locals, made>>

CallDot ==
    /\ Ready
    /\ op' = "Dot"
    /\ args' = [vector |-> Ref(2)]
    /\ ret' = NumberValue(IF IsVector2 THEN Vector2Dot(heap[1], heap[2])
                          ELSE Vector3Dot(heap[1], heap[2]))
    /\ thrown' = "none"
    /\ UNCHANGED <<u, heap, locals, made>>

\* The caller drops the result of a completed call and keeps its vectors.
Release ==
    /\ op \notin {"none", "new"}
    /\ op' = "new"
    /\ args' = NoArgs
    /\ heap' = <<heap[1], heap[2]>>
    /\ ret' = Undefined
    /\ thrown' = "none"
    /\ UNCHANGED <<u, locals, made>>

NextVector ==
    \/ ConstructVector2
    \/ ConstructVector3
    \/ CallAdd
    \/ CallSubtract
    \/ CallMultiply
    \/ CallDivide
    \/ CallLength
    \/ CallNormalize
    \/ CallDot
    \/ CallCross
    \/ Release

SpecVector == Init /\ [][NextVector]_vars

----------------------------------------------------------------------------
(* Properties of class Random, checked under Spec *)

\* a + b without rounding, for finite a and b.
ExactAdd(a, b) == Rat(a.num * b.den + b.num * a.den, a.den * b.den)

\* weights[0] + ... + weights[k-1] without rounding.
RECURSIVE ExactPrefix(_, _)
ExactPrefix(weights, k) ==
    IF k = 0 THEN Num(0)
    ELSE ExactAdd(ExactPrefix(weights, k - 1), ToNumber(weights[k]))

\* items and weights pair up, no weight is negative and their sum is positive.
WellFormedWeights ==
    /\ Len(args.items) = Len(args.weights)
    /\ \A i \in 1 .. Len(args.weights) :
           LessEq(Num(0), ToNumber(args.weights[i]))
    /\ Greater(ExactPrefix(args.weights, Len(args.weights)), Num(0))

\* C1: on well-formed input the draw randomNum lies in [0, total) and
\* WeightedSelect returns items[k] for the least index k whose cumulative
\* weight weights[0] + ... + weights[k] exceeds randomNum; such a k exists,
\* and the item returned has a positive weight.
C1_WeightedSelectFirstExceeding ==
    (op = "WeightedSelect" /\ WellFormedWeights) =>
        LET k == locals.i
            r == locals.randomNum
        IN  /\ LessEq(Num(0), r)
            /\ Less(r, ExactPrefix(args.weights, Len(args.weights)))
            /\ k \in 0 .. Len(args.items) - 1
            /\ thrown = "none"
            /\ ret = args.items[k + 1]
            /\ Less(r, ExactPrefix(args.weights, k + 1))
            /\ \A j \in 1 .. k : ~Less(r, ExactPrefix(args.weights, j))
            /\ Greater(ToNumber(args.weights[k + 1]), Num(0))

\* C1 witness: a well-formed call that passed over an item of weight 0 and
\* over an item of positive weight before it returned the third item.
C1_Witness ==
    /\ op = "WeightedSelect"
    /\ WellFormedWeights
    /\ Len(args.items) = 3
    /\ args.weights[1] = NumberValue(Num(0))
    /\ Greater(ToNumber(args.weights[2]), Num(0))
    /\ locals.i = 2
    /\ ret = args.items[3]

\* C8: WeightedSelect with items and weights of different lengths, or with
\* weights that sum to 0, fails with InvalidArgument.
C8_MalformedWeightsRejected ==
    (/\ op = "WeightedSelect"
     /\ \/ Len(args.items) # Len(args.weights)
        \/ ExactPrefix(args.weights, Len(args.weights)) = Num(0))
        => thrown = "InvalidArgument"

\* The shapes Random.In selects from.
Selectable == {"array", "object", "string"}

\* C4: Random.In returns undefined, and does not throw, for the empty
\* array, the empty object and the empty string alike.
C4_EmptyHaystackGivesUndefined ==
    (/\ op = "In"
     /\ args.haystack.shape \in Selectable
     /\ Len(args.haystack.elems) = 0)
        => (thrown = "none" /\ ret = Undefined)

\* C10: for a non-empty array, string or object the index Random.In computes
\* lies in 0 .. length-1, the result is the element, character or value at
\* that index, and every position is selected by some draw.
C10_InSelectsWithinHaystack ==
    (/\ op = "In"
     /\ args.haystack.shape \in Selectable
     /\ Len(args.haystack.elems) > 0)
        => LET elems == args.haystack.elems
               index == InIndex(Len(elems), u)
           IN  /\ IsFinite(index)
               /\ index.den = 1
               /\ index.num \in 0 .. Len(elems) - 1
               /\ thrown = "none"
               /\ ret = elems[index.num + 1]
               /\ \A p \in 1 .. Len(elems) :
                      \E rnd \in Draws : In(args.haystack, rnd) = elems[p]

\* C10 witness: a draw that selects the last character of a string of
\* MaxLen characters.
C10_Witness ==
    /\ op = "In"
    /\ args.haystack.shape = "string"
    /\ Len(args.haystack.elems) = MaxLen
    /\ ret = args.haystack.elems[MaxLen]

\* C6: Range(min, max) lies in [min, max) when min < max, in (max, min]
\* when min > max, and is min when min = max; RangeInt(min, max) is an
\* integer, the floor of that value, and lies in min .. max-1 for integers
\* min < max.
C6_RangeWithinInterval ==
    /\ op = "Range" =>
         /\ Less(args.min, args.max) =>
                LessEq(args.min, ret.n) /\ Less(ret.n, args.max)
         /\ Less(args.max, args.min) =>
                Less(args.max, ret.n) /\ LessEq(ret.n, args.min)
         /\ args.min = args.max => ret.n = args.min
    /\ op = "RangeInt" =>
         /\ IsFinite(ret.n) /\ ret.n.den = 1
         /\ ret.n = Floor(Range(args.min, args.max, u))
         /\ Less(args.min, args.max) =>
                LessEq(args.min, ret.n) /\ LessEq(ret.n, FSub(args.max, Num(1)))

----------------------------------------------------------------------------
(* Properties of class Arithma, checked under SpecArithma *)

\* C2: Sum, Max, Min, Mean, Variance and StandardDeviation of the empty
\* array fail with InvalidArgument and return no value.
C2_EmptyStatisticsFail ==
    (/\ op \in {"Sum", "Max", "Min", "Mean", "Variance", "StandardDeviation"}
     /\ args.array = <<>>)
        => (thrown = "InvalidArgument" /\ ret = Undefined)

\* The k-th smallest of the numbers of array (k in 1 .. Len(array)): the
\* value with fewer than k elements below it and at least k not above it.
KthSmallest(array, k) ==
    LET values == {ToNumber(array[i]) : i \in 1 .. Len(array)}
        below(v) == Cardinality({i \in 1 .. Len(array) : Less(ToNumber(array[i]), v)})
        upTo(v)  == Cardinality({i \in 1 .. Len(array) : LessEq(ToNumber(array[i]), v)})
    IN  CHOOSE v \in values : below(v) < k /\ k <= upTo(v)

\* C5: Median of a non-empty array is the middle value in ascending order
\* when the count is odd and the average of the two middle values when it
\* is even, and the array holds the same elements in the same order after
\* the call.
C5_MedianOfCopy ==
    (op = "Median" /\ Len(args.array) > 0) =>
        LET n == Len(args.array)
            lower  == KthSmallest(args.array, n \div 2)
            upper  == KthSmallest(args.array, n \div 2 + 1)
            sum    == ExactAdd(lower, upper)
        IN  /\ thrown = "none"
            /\ ret.type = "number"
            /\ IF n % 2 = 1
               THEN ret.n = KthSmallest(args.array, (n + 1) \div 2)
               ELSE ret.n = Rat(sum.num, 2 * sum.den)
            /\ heap.array = args.array

\* C5 witness: Median of an array of even length that is not in ascending
\* order, whose median is not a whole number.
C5_Witness ==
    /\ op = "Median"
    /\ Len(args.array) = 2
    /\ Less(ToNumber(args.array[2]), ToNumber(args.array[1]))
    /\ ret.n.den = 2
    /\ heap.array = args.array

----------------------------------------------------------------------------
(* Properties of Vector2 and Vector3, checked under SpecVector *)

\* The methods that make a vector.
Algebraic == {"Add", "Subtract", "Multiply", "Divide", "Normalize", "Cross"}

\* C3: Normalize() never throws; it returns Divide(Length()) for a vector
\* of positive length and the zero vector for a vector of length 0.
C3_NormalizeNeverRaises ==
    op = "Normalize" =>
        /\ thrown = "none"
        /\ ret.type = "object"
        /\ IF IsVector2
           THEN LET len == Vector2Length(heap[1])
                IN  heap[ret.ref] =
                        IF Greater(len, Num(0)) THEN Vector2Divide(heap[1], len)
                        ELSE Vector2(Num(0), Num(0))
           ELSE LET len == Vector3Length(heap[1])
                IN  heap[ret.ref] =
                        IF Greater(len, Num(0)) THEN Vector3Divide(heap[1], len)
                        ELSE Vector3(Num(0), Num(0), Num(0))

\* C7: Add, Subtract, Multiply, Divide, Normalize and Cross each return a
\* new vector, and after any sequence of calls the receiver and the
\* argument hold the components their constructors gave them.
C7_OperationsReturnNewVector ==
    /\ op # "none" => (heap[1] = made[1] /\ heap[2] = made[2])
    /\ op \in Algebraic =>
         /\ thrown = "none"
         /\ ret.type = "object"
         /\ ret.ref \notin {1, 2}
         /\ ret.ref \in DOMAIN heap

\* C9: for integer components a.Cross(b) is
\* (a.y*b.z - a.z*b.y, a.z*b.x - a.x*b.z, a.x*b.y - a.y*b.x); it is the
\* negation of b.Cross(a), it is orthogonal to a and to b, and
\* (1,0,0).Cross((0,1,0)) is (0,0,1).
C9_CrossIsRightHanded ==
    op = "Cross" =>
        LET a == heap[1]
            b == heap[2]
            c == heap[ret.ref]
            back == Vector3Cross(b, a)
        IN  /\ thrown = "none"
            /\ c = Vector3(Num(a.y.num * b.z.num - a.z.num * b.y.num),
                           Num(a.z.num * b.x.num - a.x.num * b.z.num),
                           Num(a.x.num * b.y.num - a.y.num * b.x.num))
            /\ c = Vector3(FNeg(back.x), FNeg(back.y), FNeg(back.z))
            /\ Vector3Dot(a, c) = Num(0)
            /\ Vector3Dot(b, c) = Num(0)
            /\ (/\ a = Vector3(Num(1), Num(0), Num(0))
                /\ b = Vector3(Num(0), Num(1), Num(0)))
                   => c = Vector3(Num(0), Num(0), Num(1))

\* C9 witness: (1,0,0).Cross((0,1,0)) returned (0,0,1).
C9_Witness ==
    /\ op = "Cross"
    /\ heap[1] = Vector3(Num(1), Num(0), Num(0))
    /\ heap[2] = Vector3(Num(0), Num(1), Num(0))
    /\ heap[ret.ref] = Vector3(Num(0), Num(0), Num(1))

====
